---- MODULE Spec2Model ----
(***************************************************************************)
(* Model of the roster (collective authority) of ineiti/dela.              *)
(*                                                                         *)
(* The source tree holds one implementation of the roster operations:     *)
(* fake.CollectiveAuthority (src/internal/testing/fake/mod.go), with      *)
(* Apply, Take, GetPublicKey and the two iterators.  The roster package's *)
(* own Diff and its seekable iterator are present only through their      *)
(* tests (src/contracts/evoting/controller/mod.go, lines 96-261); both are *)
(* modelled from the specification and those tests.                        *)
(*                                                                         *)
(* Go slices are modelled as references into a heap of backing arrays, so  *)
(* that sharing between a roster and the roster an operation returns is    *)
(* something the model can express.  Go indices are 0-based; sequences     *)
(* here are 1-based, and every index crossing the boundary is shifted.     *)
(***************************************************************************)
EXTENDS Integers, Sequences, FiniteSets, TLC

\* ------------------------------------------------------------------ bounds
\* Longest roster a constructor builds.
MaxLen == 3
\* Longest roster a caller keeps as its roster and goes on with.
MaxKeep == 2
\* Longest Remove list of a change set given to Apply.
MaxRemove == 2
\* Most calls the recorder of a roster is let to record.
MaxCalls == 2
\* GetNext calls made on an iterator after it is exhausted.
ExtraGets == 2

\* fake.Address is identified by its index field.
Addresses == {0, 1, 2, 3}
\* Public keys: what a signer's GetPublicKey returns.
PubKeys == {"pkA", "pkB"}
\* Longest Add list of a change set given to Apply.
AddLens == {0, 1}
\* How many filters one Take is given.
FilterCounts == {0, 1, 2}

Nil == "nil"
\* No iterator yet.
NoIter == [impl |-> "none", arr |-> 0, index |-> 0]
\* No roster: the zero value of a roster reference.
NoRoster == [addrs |-> 0, signers |-> 0, Call |-> 0]

VARIABLES
    ca,     \* the receiver: [addrs, signers: array ids, Call: 0 (nil) or 1]
    out,    \* the roster the last operation returned, or NoRoster
    heap,   \* backing arrays: heap[id] is the content of array id
    calls,  \* len(Call.calls) of the one recorder a roster may point to
    pc,     \* "idle", "returned" (the result awaits the caller) or "panicked"
    op,     \* the last operation: <<name>>, or <<name, "panic">> when it panicked
    arg,    \* argument of the last operation
    ret,    \* value returned by the last operation when it is no roster
    other,  \* <<B>> once Diff was called with the roster B, else <<>>
    it,     \* the iterator in use: [impl, arr: array id, index], or NoIter
    gets,   \* GetNext calls made on the iterator since it was created
    errs,   \* the roster elements whose err field is set: <<array id, Go position>>
    w,      \* the writer handed to Fingerprint: [err, delay, data]
    rpc,    \* the fake RPC handle: its channels Msgs and Errs
    ctx,    \* ctx[k]: the context of the k-th Call on the handle
    gor,    \* gor[k]: where the goroutine of the k-th Call stands
    nonce,  \* client.nonce, a uint64
    callers,\* callers[c]: where caller c stands in GetNonce, and its locals
    nonces, \* the nonces GetNonce has returned, in the order of the returns
    start   \* client.nonce when the first of these calls was made

\* The state of the roster operations, and the state of everything else.
rosterVars == <<ca, out, heap, calls, pc, op, arg, ret, other, it, gets>>
printVars == <<errs, w>>
rpcVars == <<rpc, ctx, gor>>
nonceVars == <<nonce, callers, nonces, start>>

vars == <<rosterVars, printVars, rpcVars, nonceVars>>

\* ----------------------------------------------------------------- helpers
Range(s) == {s[i] : i \in 1..Len(s)}

SeqsUpTo(S, n) == UNION {[1..k -> S] : k \in 0..n}

Distinct(s) == \A i, j \in 1..Len(s) : i # j => s[i] # s[j]

\* An Equal that forgets to compare the index: any two fake addresses match.
EqualAlways(a, o) == TRUE

\* An Equal with the comparison of the indices inverted.
EqualInverted(a, o) == a # o

\* Address.Equal: two fake addresses are equal when their indices are.
Equal(a, o) == a = o

\* viewchange.Player: an address and a public key.
Players == [Address : Addresses, PublicKey : PubKeys]

\* viewchange.ChangeSet{Remove []uint32, Add []Player}.
EmptyChangeSet == [Remove |-> <<>>, Add |-> <<>>]

\* The content of a roster object: its two slices read through the heap.
Content(r) == [addrs |-> heap[r.addrs], signers |-> heap[r.signers]]

\* append(s[:i], s[i+1:]...) for a Go index i < len(s).
RemoveAt(s, i) == SubSeq(s, 1, i) \o SubSeq(s, i + 2, Len(s))

\* The removal loop of Apply: indices are used in the order listed, each
\* against the slice as the earlier removals left it.  s[i+1:] panics when
\* i >= len(s).
RECURSIVE RemoveLoop(_, _, _)
RemoveLoop(addrs, signers, remove) ==
    IF remove = <<>>
    THEN [panic |-> FALSE, addrs |-> addrs, signers |-> signers]
    ELSE LET i == Head(remove) IN
         IF i >= Len(addrs)
         THEN [panic |-> TRUE, addrs |-> <<>>, signers |-> <<>>]
         ELSE RemoveLoop(RemoveAt(addrs, i), RemoveAt(signers, i), Tail(remove))

\* A copy loop that stops one element early.
CopyOfShort(s) == [i \in 1..(Len(s) - 1) |-> s[i]]

\* The copy loop of Apply: the new slices hold the receiver's elements.
CopyOf(s) == [i \in 1..Len(s) |-> s[i]]

\* CollectiveAuthority.Apply on the content A of the receiver: copy, append
\* the added players (their keys wrapped in a signerWrapper), then remove.
Apply(A, cs) ==
    RemoveLoop(
        CopyOf(A.addrs) \o [i \in 1..Len(cs.Add) |-> cs.Add[i].Address],
        CopyOf(A.signers) \o [i \in 1..Len(cs.Add) |-> cs.Add[i].PublicKey],
        cs.Remove)

\* --------------------------------------------------------------- the state
\* NewAuthorityWithBase(base, n, g): addresses base..base+n-1, one signer
\* from g per member.  Call is an exported field, nil unless a caller sets it.
NewAuthorityWithBase(base, n, keys) ==
    [addrs |-> [i \in 1..n |-> base + i - 1], signers |-> keys]

InitRosters ==
    {NewAuthorityWithBase(base, n, keys) :
        <<base, n, keys>> \in
            {<<b, m, k>> \in Addresses \X (0..MaxLen) \X SeqsUpTo(PubKeys, MaxLen) :
                /\ Len(k) = m
                /\ \A i \in 1..m : b + i - 1 \in Addresses}}

\* new(bytes.Buffer): a writer that takes every write.  data lists the byte
\* slices handed to Write, in the order of the calls.
NewBuffer == [err |-> FALSE, delay |-> 0, data |-> <<>>]

\* NewRPC(): two open channels with nothing in them.
NewRPC == [Msgs |-> [buf |-> <<>>, closed |-> FALSE],
           Errs |-> [buf |-> <<>>, closed |-> FALSE]]

\* A uint64 is kept as four 16-bit limbs, the most significant first.
Limb == 65536
\* &client{nonce: 1}
NewClientNonce == <<0, 0, 0, 1>>

\* The goroutines that call GetNonce on the one client.
Callers == {"c1", "c2"}

\* A client whose nonce is n, with no caller in GetNonce.
ClientAt(n) ==
    /\ nonce = n
    /\ start = n
    /\ callers = [c \in Callers |-> [pc |-> "idle", res |-> n, reg |-> n]]
    /\ nonces = <<>>

\* Nothing but the client.
Unused ==
    /\ errs = {}
    /\ w = NewBuffer
    /\ rpc = NewRPC
    /\ ctx = <<>>
    /\ gor = <<>>
    /\ out = NoRoster
    /\ calls = 0
    /\ pc = "idle"
    /\ op = <<"new">>
    /\ arg = Nil
    /\ ret = Nil
    /\ other = <<>>
    /\ it = NoIter
    /\ gets = 0

\* Nothing was called yet.
Untouched == ClientAt(NewClientNonce) /\ Unused

Init ==
    /\ \E A \in InitRosters : heap = <<A.addrs, A.signers>>
    /\ ca = [addrs |-> 1, signers |-> 2, Call |-> 0]
    /\ Untouched

\* Change sets a caller may hand to Apply on a roster of n members: Remove
\* is any list of uint32 up to n (n is out of range for the receiver).
ChangeSets(n) ==
    [Remove : SeqsUpTo(0..n, MaxRemove),
     Add : UNION {[1..k -> Players] : k \in AddLens}]

\* mino.RangeFilter(lo, hi) and mino.IndexFilter(i), as updaters of a filter.
RangeFilter(lo, hi) == [kind |-> "range", lo |-> lo, hi |-> hi]
IndexFilter(i) == [kind |-> "index", lo |-> i, hi |-> i + 1]

\* A finite set of integers as the ascending sequence of its elements.
RECURSIVE SortedSeq(_)
SortedSeq(S) ==
    IF S = {} THEN <<>>
    ELSE LET m == CHOOSE x \in S : \A y \in S : x <= y
         IN <<m>> \o SortedSeq(S \ {m})

\* mino.ApplyFilters(updaters).Indices: the updaters are applied left to
\* right, each merging its indices into the ordered index set.
RECURSIVE MergeFilters(_, _)
MergeFilters(updaters, acc) ==
    IF updaters = <<>> THEN acc
    ELSE MergeFilters(Tail(updaters),
                      acc \cup (Head(updaters).lo..(Head(updaters).hi - 1)))

ApplyFilters(updaters) == SortedSeq(MergeFilters(updaters, {}))

\* A Take that pairs every address with the signer at the position in the
\* new roster instead of the position taken.
TakeUnpaired(A, indices) ==
    IF \E i \in 1..Len(indices) : indices[i] >= Len(A.addrs)
    THEN [panic |-> TRUE, addrs |-> <<>>, signers |-> <<>>]
    ELSE [panic |-> FALSE,
          addrs |-> [i \in 1..Len(indices) |-> A.addrs[indices[i] + 1]],
          signers |-> [i \in 1..Len(indices) |-> A.signers[i]]]

\* CollectiveAuthority.Take on the content A with the resolved indices:
\* element i of the new slices is element indices[i] of the receiver's;
\* ca.addrs[k] panics when k is out of range.
Take(A, indices) ==
    IF \E i \in 1..Len(indices) : indices[i] >= Len(A.addrs)
    THEN [panic |-> TRUE, addrs |-> <<>>, signers |-> <<>>]
    ELSE [panic |-> FALSE,
          addrs |-> [i \in 1..Len(indices) |-> A.addrs[indices[i] + 1]],
          signers |-> [i \in 1..Len(indices) |-> A.signers[indices[i] + 1]]]

\* CollectiveAuthority.GetPublicKey: the first position whose address is
\* Equal to addr, with the key of the signer there; (nil, -1) when none is.
GetPublicKey(A, addr) ==
    IF \E i \in 1..Len(A.addrs) : Equal(A.addrs[i], addr)
    THEN LET i == CHOOSE k \in 1..Len(A.addrs) :
                      /\ Equal(A.addrs[k], addr)
                      /\ \A j \in 1..(k - 1) : ~Equal(A.addrs[j], addr)
         IN <<A.signers[i], i - 1>>
    ELSE <<Nil, -1>>

\* roster.Diff(other): the change set that turns the receiver into other.
\* Both rosters are walked from the front, i over the receiver and k over
\* other (Go indices): equal addresses are kept, a member of the receiver
\* that is not the next one of other is removed, and what is left of other
\* once the receiver is used up is added.  Remove comes out ascending.
RECURSIVE DiffLoop(_, _, _, _, _)
DiffLoop(A, B, i, k, cs) ==
    IF i >= Len(A.addrs) /\ k >= Len(B.addrs) THEN cs
    ELSE IF i < Len(A.addrs) /\ k < Len(B.addrs) /\ Equal(A.addrs[i + 1], B.addrs[k + 1])
    THEN DiffLoop(A, B, i + 1, k + 1, cs)
    ELSE IF i < Len(A.addrs)
    THEN DiffLoop(A, B, i + 1, k, [cs EXCEPT !.Remove = Append(@, i)])
    ELSE DiffLoop(A, B, i, k + 1,
                  [cs EXCEPT !.Add = Append(@, [Address |-> B.addrs[k + 1],
                                                PublicKey |-> B.signers[k + 1]])])

Diff(A, B) == DiffLoop(A, B, 0, 0, EmptyChangeSet)

\* A returned roster that reuses the slices of the receiver.
ResliceReceiver(r) == [addrs |-> ca.addrs, signers |-> ca.signers, Call |-> ca.Call]

\* CollectiveAuthority{Call: ca.Call, addrs: make(...), signers: make(...)}:
\* the returned roster has slices of its own and the recorder of the receiver.
NewAuthority(r) ==
    [addrs |-> Len(heap) + 1, signers |-> Len(heap) + 2, Call |-> ca.Call]

\* What a call leaves behind when it returns a roster, or panics.
Returned(name, r) ==
    IF r.panic
    THEN /\ op' = <<name, "panic">>
         /\ pc' = "panicked"
         /\ UNCHANGED <<out, heap>>
    ELSE /\ op' = <<name>>
         /\ pc' = "returned"
         /\ heap' = heap \o <<r.addrs, r.signers>>
         /\ out' = NewAuthority(r)

\* ca.Apply(cs)
ApplyAct(cs) ==
    /\ UNCHANGED <<printVars, rpcVars, nonceVars>>
    /\ pc = "idle"
    /\ ca.Call # 0 => calls < MaxCalls
    /\ calls' = IF ca.Call # 0 THEN calls + 1 ELSE calls
    /\ arg' = cs
    /\ ret' = Nil
    /\ UNCHANGED <<ca, other, it, gets>>
    /\ Returned("Apply", Apply(Content(ca), cs))

\* ca.Take(updaters...)
TakeAct(updaters) ==
    /\ UNCHANGED <<printVars, rpcVars, nonceVars>>
    /\ pc = "idle"
    /\ arg' = updaters
    /\ ret' = Nil
    /\ UNCHANGED <<ca, calls, other, it, gets>>
    /\ Returned("Take", Take(Content(ca), ApplyFilters(updaters)))

\* ca.GetPublicKey(addr)
GetPublicKeyAct(addr) ==
    /\ UNCHANGED <<printVars, rpcVars, nonceVars>>
    /\ pc = "idle"
    /\ op' = <<"GetPublicKey">>
    /\ arg' = addr
    /\ ret' = GetPublicKey(Content(ca), addr)
    /\ pc' = "returned"
    /\ UNCHANGED <<ca, out, heap, calls, other, it, gets>>

\* The caller keeps the returned roster as its roster: roster = roster.Apply(cs).
Adopt ==
    /\ UNCHANGED <<printVars, rpcVars, nonceVars>>
    /\ pc = "returned"
    /\ out # NoRoster
    /\ Len(heap[out.addrs]) <= MaxKeep
    /\ heap' = <<heap[out.addrs], heap[out.signers]>>
    /\ ca' = [addrs |-> 1, signers |-> 2, Call |-> out.Call]
    /\ out' = NoRoster
    /\ pc' = "idle"
    /\ op' = <<"adopt">>
    /\ arg' = Nil
    /\ ret' = Nil
    /\ other' = <<>>
    /\ it' = NoIter
    /\ gets' = 0
    /\ UNCHANGED calls

\* The caller is done with what the call returned (or has recovered from
\* its panic) and goes on with the receiver.
Discard ==
    /\ UNCHANGED <<printVars, rpcVars, nonceVars>>
    /\ pc \in {"returned", "panicked"}
    /\ heap' = SubSeq(heap, 1, 2)
    /\ out' = NoRoster
    /\ pc' = "idle"
    /\ op' = <<"discard">>
    /\ arg' = Nil
    /\ ret' = Nil
    /\ other' = <<>>
    /\ UNCHANGED <<ca, calls, it, gets>>

\* The filters a caller may hand to Take on a roster of n members.
Updaters(n) ==
    {RangeFilter(lo, hi) : <<lo, hi>> \in {<<l, h>> \in (0..n) \X (0..(n + 1)) : l <= h}}
        \cup {IndexFilter(i) : i \in 0..n}

FilterLists(n) == UNION {[1..k -> Updaters(n)] : k \in FilterCounts}

Next ==
    \/ \E cs \in ChangeSets(Len(heap[ca.addrs])) : ApplyAct(cs)
    \/ \E us \in FilterLists(Len(heap[ca.addrs])) : TakeAct(us)
    \/ \E addr \in Addresses : GetPublicKeyAct(addr)
    \/ Adopt
    \/ Discard

Spec == Init /\ [][Next]_vars

\* ca.Diff(B)
DiffAct(B) ==
    /\ UNCHANGED <<printVars, rpcVars, nonceVars>>
    /\ pc = "idle"
    /\ op' = <<"Diff">>
    /\ arg' = B
    /\ ret' = Diff(Content(ca), B)
    /\ other' = <<B>>
    /\ pc' = "returned"
    /\ UNCHANGED <<ca, out, heap, calls, it, gets>>

\* ca.Apply(ca.Diff(B)): the caller applies the change set Diff returned.
ApplyDiffAct ==
    /\ UNCHANGED <<printVars, rpcVars, nonceVars>>
    /\ pc = "returned"
    /\ op = <<"Diff">>
    /\ ca.Call # 0 => calls < MaxCalls
    /\ calls' = IF ca.Call # 0 THEN calls + 1 ELSE calls
    /\ arg' = ret
    /\ UNCHANGED <<ca, ret, other, it, gets>>
    /\ Returned("Apply", Apply(Content(ca), ret))

\* Rosters of at most n members with pairwise distinct addresses.
DistinctRosters(n, keys) ==
    {[addrs |-> a, signers |-> k] :
        <<a, k>> \in {<<x, y>> \in SeqsUpTo(Addresses, n) \X SeqsUpTo(keys, n) :
                        Len(x) = Len(y) /\ Distinct(x)}}

\* The rosters the diff is taken of: members with the one key of
\* fake.NewSigner, any distinct addresses.
InitDiff ==
    /\ \E A \in DistinctRosters(MaxLen, {"pkA"}) : heap = <<A.addrs, A.signers>>
    /\ ca = [addrs |-> 1, signers |-> 2, Call |-> 0]
    /\ Untouched

NextDiff ==
    \/ \E B \in DistinctRosters(MaxLen + 1, PubKeys) : DiffAct(B)
    \/ ApplyDiffAct
    \/ Discard

SpecDiff == InitDiff /\ [][NextDiff]_vars

\* ---------------------------------------------------------------- iterators
\* A HasNext that stops one element early.
HasNextEarly(i) == i.index + 2 < Len(heap[i.arr])

\* AddressIterator.HasNext, PublicKeyIterator.HasNext: index is the Go
\* position of the element returned last, -1 on a new iterator.
HasNext(i) == i.index + 1 < Len(heap[i.arr])

\* AddressIterator.GetNext, PublicKeyIterator.GetNext: the iterator after
\* the call, and the value returned (<<x>>, or <<>> for nil).
GetNext(i) ==
    IF HasNext(i)
    THEN [it |-> [i EXCEPT !.index = i.index + 1], value |-> <<heap[i.arr][i.index + 2]>>]
    ELSE [it |-> i, value |-> <<>>]

\* ca.AddressIterator(), ca.PublicKeyIterator(): the iterator reads the
\* slice of the roster it was made of.
NewIterator(kind) ==
    [impl |-> kind,
     arr |-> IF kind = "fake.AddressIterator" THEN ca.addrs ELSE ca.signers,
     index |-> -1]

IteratorAct(kind) ==
    /\ UNCHANGED <<printVars, rpcVars, nonceVars>>
    /\ pc = "idle"
    /\ it' = NewIterator(kind)
    /\ gets' = 0
    /\ op' = <<kind>>
    /\ arg' = Nil
    /\ ret' = Nil
    /\ UNCHANGED <<ca, out, heap, calls, pc, other>>

HasNextAct ==
    /\ UNCHANGED <<printVars, rpcVars, nonceVars>>
    /\ pc = "idle"
    /\ it.impl \in {"fake.AddressIterator", "fake.PublicKeyIterator"}
    /\ op' = <<"HasNext">>
    /\ arg' = Nil
    /\ ret' = <<HasNext(it)>>
    /\ UNCHANGED <<ca, out, heap, calls, pc, other, it, gets>>

GetNextAct ==
    /\ UNCHANGED <<printVars, rpcVars, nonceVars>>
    /\ pc = "idle"
    /\ it.impl \in {"fake.AddressIterator", "fake.PublicKeyIterator"}
    /\ gets < Len(heap[it.arr]) + ExtraGets
    /\ it' = GetNext(it).it
    /\ gets' = gets + 1
    /\ op' = <<"GetNext">>
    /\ arg' = Nil
    /\ ret' = GetNext(it).value
    /\ UNCHANGED <<ca, out, heap, calls, pc, other>>

\* The iterator of the roster package (iterator, addressIterator and
\* publicKeyIterator): index is the Go position of the element GetNext
\* returns next, 0 on a new iterator.
\* A Seek that lands one position too far.
SeekPast(i, k) == [i EXCEPT !.index = k + 1]

\* iterator.Seek(k)
Seek(i, k) == [i EXCEPT !.index = k]

\* iterator.HasNext
RosterHasNext(i) == i.index < Len(heap[i.arr])

\* addressIterator.GetNext, publicKeyIterator.GetNext
RosterGetNext(i) ==
    IF RosterHasNext(i)
    THEN [it |-> [i EXCEPT !.index = i.index + 1], value |-> <<heap[i.arr][i.index + 1]>>]
    ELSE [it |-> i, value |-> <<>>]

\* roster.AddressIterator(), roster.PublicKeyIterator()
NewRosterIterator(kind) ==
    [impl |-> kind,
     arr |-> IF kind = "roster.addressIterator" THEN ca.addrs ELSE ca.signers,
     index |-> 0]

RosterIteratorAct(kind) ==
    /\ UNCHANGED <<printVars, rpcVars, nonceVars>>
    /\ pc = "idle"
    /\ it' = NewRosterIterator(kind)
    /\ gets' = 0
    /\ op' = <<kind>>
    /\ arg' = Nil
    /\ ret' = Nil
    /\ UNCHANGED <<ca, out, heap, calls, pc, other>>

SeekAct(k) ==
    /\ UNCHANGED <<printVars, rpcVars, nonceVars>>
    /\ pc = "idle"
    /\ it.impl \in {"roster.addressIterator", "roster.publicKeyIterator"}
    /\ it' = Seek(it, k)
    /\ op' = <<"Seek">>
    /\ arg' = k
    /\ ret' = Nil
    /\ UNCHANGED <<ca, out, heap, calls, pc, other, gets>>

RosterHasNextAct ==
    /\ UNCHANGED <<printVars, rpcVars, nonceVars>>
    /\ pc = "idle"
    /\ it.impl \in {"roster.addressIterator", "roster.publicKeyIterator"}
    /\ op' = <<"RosterHasNext">>
    /\ arg' = Nil
    /\ ret' = <<RosterHasNext(it)>>
    /\ UNCHANGED <<ca, out, heap, calls, pc, other, it, gets>>

RosterGetNextAct ==
    /\ UNCHANGED <<printVars, rpcVars, nonceVars>>
    /\ pc = "idle"
    /\ it.impl \in {"roster.addressIterator", "roster.publicKeyIterator"}
    /\ it' = RosterGetNext(it).it
    /\ op' = <<"RosterGetNext">>
    /\ arg' = Nil
    /\ ret' = RosterGetNext(it).value
    /\ UNCHANGED <<ca, out, heap, calls, pc, other, gets>>

NextIter ==
    \/ \E kind \in {"fake.AddressIterator", "fake.PublicKeyIterator"} : IteratorAct(kind)
    \/ HasNextAct
    \/ GetNextAct
    \/ \E kind \in {"roster.addressIterator", "roster.publicKeyIterator"} :
          RosterIteratorAct(kind)
    \/ \E k \in 0..(MaxLen + 1) : SeekAct(k)
    \/ RosterHasNextAct
    \/ RosterGetNextAct

SpecIter == Init /\ [][NextIter]_vars

\* ------------------------------------------------- one receiver, all calls
\* roster.addrs[i] = fake.NewAddress(5): the caller writes into a slice of
\* the roster it was returned.
PokedIndex == 5

PokeAct(i) ==
    /\ UNCHANGED <<printVars, rpcVars, nonceVars>>
    /\ pc = "returned"
    /\ out # NoRoster
    /\ op # <<"poke">>
    /\ i < Len(heap[out.addrs])
    /\ heap' = [heap EXCEPT ![out.addrs][i + 1] = PokedIndex]
    /\ op' = <<"poke">>
    /\ arg' = i
    /\ UNCHANGED <<ca, out, calls, pc, ret, other, it, gets>>

\* The receiver is built by NewAuthority(n, fake.NewSigner); its Call field
\* is left nil or set to a recorder.
InitFrame ==
    /\ \E n \in 0..MaxLen :
          heap = <<NewAuthorityWithBase(0, n, [i \in 1..n |-> "pkA"]).addrs,
                   NewAuthorityWithBase(0, n, [i \in 1..n |-> "pkA"]).signers>>
    /\ \E c \in {0, 1} : ca = [addrs |-> 1, signers |-> 2, Call |-> c]
    /\ Untouched

\* Calls with at most one Remove index and at most one filter.
FrameChangeSets(n) == {cs \in ChangeSets(n) : Len(cs.Remove) <= 1}
FrameFilterLists(n) == {us \in FilterLists(n) : Len(us) <= 1}

NextFrame ==
    \/ \E cs \in FrameChangeSets(Len(heap[ca.addrs])) : ApplyAct(cs)
    \/ \E us \in FrameFilterLists(Len(heap[ca.addrs])) : TakeAct(us)
    \/ \E B \in InitRosters : DiffAct(B)
    \/ \E addr \in Addresses : GetPublicKeyAct(addr)
    \/ \E kind \in {"fake.AddressIterator", "fake.PublicKeyIterator"} : IteratorAct(kind)
    \/ HasNextAct
    \/ GetNextAct
    \/ \E i \in 0..MaxLen : PokeAct(i)
    \/ Discard

SpecFrame == InitFrame /\ [][NextFrame]_vars

\* -------------------------------------------------------------- Fingerprint
\* Most Write calls a writer has taken when another Fingerprint is started.
MaxWrites == 6
\* Longest delay of a NewBadHashWithDelay.
MaxDelay == 2

\* The byte PublicKey.MarshalBinary returns.
KeyByte == 223

\* binary.LittleEndian.PutUint32(buffer, x) on a buffer of four bytes.
Uint32Bytes(x) ==
    <<x % 256, (x \div 256) % 256, (x \div 65536) % 256, (x \div 16777216) % 256>>

\* A MarshalText with a buffer of two bytes.
MarshalTextShort(index, err) ==
    [data |-> SubSeq(Uint32Bytes(index), 1, 2), err |-> err]

\* Address.MarshalText: the index in four little-endian bytes, and a.err.
MarshalText(index, err) == [data |-> Uint32Bytes(index), err |-> err]

\* PublicKey.MarshalBinary: one byte whatever the key, and pk.err.
MarshalBinary(pk, err) == [data |-> <<KeyByte>>, err |-> err]

\* A Write that keeps the length of what it is handed and not the bytes.
WriteCount(h, in) ==
    IF h.delay > 0
    THEN [w |-> [h EXCEPT !.data = Append(@, <<Len(in)>>), !.delay = @ - 1], err |-> FALSE]
    ELSE [w |-> [h EXCEPT !.data = Append(@, <<Len(in)>>)], err |-> h.err]

\* A Write that fails from the first call on, whatever the delay.
WriteNoDelay(h, in) ==
    [w |-> [h EXCEPT !.data = Append(@, in)], err |-> h.err]

\* Hash.Write: the call is recorded; while delay > 0 it is counted down and
\* the write succeeds, after that the write returns h.err.  A writer whose
\* err is nil takes every write, as a bytes.Buffer does.
Write(h, in) ==
    IF h.delay > 0
    THEN [w |-> [h EXCEPT !.data = Append(@, in), !.delay = @ - 1], err |-> FALSE]
    ELSE [w |-> [h EXCEPT !.data = Append(@, in)], err |-> h.err]

\* NewBadHash(), NewBadHashWithDelay(delay)
NewBadHash == [err |-> TRUE, delay |-> 0, data |-> <<>>]
NewBadHashWithDelay(delay) == [err |-> TRUE, delay |-> delay, data |-> <<>>]

\* The writers a caller hands to Fingerprint.
Writers == {NewBuffer, NewBadHash} \cup {NewBadHashWithDelay(d) : d \in 1..MaxDelay}

\* NewBadAddress() has index 0 and err set; NewBadPublicKey() has err set.
BadAddressIndex == 0
BadPublicKey == "pkBad"

\* roster.Fingerprint(w) from player i (a Go position) on: the address is
\* marshalled and written, then the key; the first failure ends the loop
\* with an error that names the step.  E holds the elements whose err is set.
RECURSIVE FingerprintLoop(_, _, _, _, _)
FingerprintLoop(r, A, E, h, i) ==
    IF i >= Len(A.addrs) THEN [w |-> h, err |-> Nil]
    ELSE LET a == MarshalText(A.addrs[i + 1], <<r.addrs, i>> \in E) IN
         IF a.err THEN [w |-> h, err |-> "couldn't marshal address"]
         ELSE LET wa == Write(h, a.data) IN
         IF wa.err THEN [w |-> wa.w, err |-> "couldn't write address"]
         ELSE LET k == MarshalBinary(A.signers[i + 1], <<r.signers, i>> \in E) IN
         IF k.err THEN [w |-> wa.w, err |-> "couldn't marshal public key"]
         ELSE LET wk == Write(wa.w, k.data) IN
         IF wk.err THEN [w |-> wk.w, err |-> "couldn't write public key"]
         ELSE FingerprintLoop(r, A, E, wk.w, i + 1)

Fingerprint(r, h) == FingerprintLoop(r, Content(r), errs, h, 0)

\* roster.Fingerprint(w)
FingerprintAct ==
    /\ Len(w.data) < MaxWrites
    /\ w' = Fingerprint(ca, w).w
    /\ ret' = Fingerprint(ca, w).err
    /\ arg' = w
    /\ op' = <<"Fingerprint">>
    /\ UNCHANGED <<ca, out, heap, calls, pc, other, it, gets, errs, rpcVars, nonceVars>>

\* The caller takes another writer.
NewWriterAct(h) ==
    /\ w' = h
    /\ op' = <<"writer">>
    /\ arg' = Nil
    /\ ret' = Nil
    /\ UNCHANGED <<ca, out, heap, calls, pc, other, it, gets, errs, rpcVars, nonceVars>>

\* roster.addrs[i] = fake.NewBadAddress(), before the writer is used.
BadAddressAct(i) ==
    /\ w.data = <<>>
    /\ i < Len(heap[ca.addrs])
    /\ <<ca.addrs, i>> \notin errs
    /\ heap' = [heap EXCEPT ![ca.addrs][i + 1] = BadAddressIndex]
    /\ errs' = errs \cup {<<ca.addrs, i>>}
    /\ op' = <<"bad address">>
    /\ arg' = i
    /\ ret' = Nil
    /\ UNCHANGED <<ca, out, calls, pc, other, it, gets, w, rpcVars, nonceVars>>

\* roster.pubkeys[i] = fake.NewBadPublicKey(), before the writer is used.
BadPublicKeyAct(i) ==
    /\ w.data = <<>>
    /\ i < Len(heap[ca.signers])
    /\ <<ca.signers, i>> \notin errs
    /\ heap' = [heap EXCEPT ![ca.signers][i + 1] = BadPublicKey]
    /\ errs' = errs \cup {<<ca.signers, i>>}
    /\ op' = <<"bad public key">>
    /\ arg' = i
    /\ ret' = Nil
    /\ UNCHANGED <<ca, out, calls, pc, other, it, gets, w, rpcVars, nonceVars>>

NextPrint ==
    \/ FingerprintAct
    \/ \E h \in Writers : NewWriterAct(h)
    \/ \E i \in 0..MaxLen : BadAddressAct(i)
    \/ \E i \in 0..MaxLen : BadPublicKeyAct(i)

SpecPrint == Init /\ [][NextPrint]_vars

\* ------------------------------------------------- text and JSON encodings
\* Longest text handed to FromText.
MaxText == 5
\* The bytes such a text is made of.
TextBytes == {0, 1}

\* binary.LittleEndian.Uint32(text): the first four bytes as a number.
Uint32(text) == text[1] + 256 * text[2] + 65536 * text[3] + 16777216 * text[4]

\* AddressFactory.FromText: the index of the address returned.  A text of
\* more than four bytes is read as a little-endian index; any other text
\* gives Address{}, whose index is 0.
FromText(text) == IF Len(text) > 4 THEN Uint32(text) ELSE 0

\* PublicKey.Serialize(ctx) and PublicKeyFactory.PublicKeyOf(ctx, raw): the
\* raw JSON message of a key, and the key of a raw message.
Serialize(pk) == [raw |-> pk]
PublicKeyOf(raw) == raw.raw

\* ctx.Marshal / ctx.Unmarshal (encoding/json): a []byte travels as a
\* base64 string, a raw message as it is, a slice as an array.
Base64(bytes) == [base64 |-> bytes]
MarshalPlayers(ps) ==
    [i \in 1..Len(ps) |-> [Address |-> Base64(ps[i].Address), PublicKey |-> ps[i].PublicKey]]
UnmarshalPlayers(js) ==
    [i \in 1..Len(js) |-> [Address |-> js[i].Address.base64, PublicKey |-> js[i].PublicKey]]

\* The JSON messages Player of a list of players, or the first error:
\* MarshalText of the address, then Serialize of the key.
JSONPlayers(addrs, keys, bad) ==
    IF \E i \in 1..Len(addrs) : bad[i]
    THEN [err |-> "couldn't marshal address", players |-> <<>>]
    ELSE [err |-> Nil,
          players |-> [i \in 1..Len(addrs) |->
                         [Address |-> MarshalText(addrs[i], bad[i]).data,
                          PublicKey |-> Serialize(keys[i])]]]

\* rosterFormat.Encode: one Player per member, walked with the two
\* iterators of the roster, then marshalled as the message Roster.
RosterEncode(r) ==
    LET A == Content(r)
        ps == JSONPlayers(A.addrs, A.signers,
                          [i \in 1..Len(A.addrs) |-> <<r.addrs, i - 1>> \in errs])
    IN IF ps.err # Nil THEN [err |-> ps.err, data |-> <<>>]
       ELSE [err |-> Nil, data |-> MarshalPlayers(ps.players)]

\* rosterFormat.Decode: every address through FromText of the address
\* factory, every key through the public key factory.
RosterDecode(data) ==
    LET m == UnmarshalPlayers(data)
    IN [addrs |-> [i \in 1..Len(m) |-> FromText(m[i].Address)],
        signers |-> [i \in 1..Len(m) |-> PublicKeyOf(m[i].PublicKey)]]

\* changeSetFormat.Encode: Remove as it is, one Player per added player.
ChangeSetEncode(cs) ==
    LET ps == JSONPlayers([i \in 1..Len(cs.Add) |-> cs.Add[i].Address],
                          [i \in 1..Len(cs.Add) |-> cs.Add[i].PublicKey],
                          [i \in 1..Len(cs.Add) |-> FALSE])
    IN [err |-> ps.err, data |-> [Remove |-> cs.Remove, Add |-> MarshalPlayers(ps.players)]]

\* changeSetFormat.Decode: Add stays nil when the message has none.
ChangeSetDecode(data) ==
    LET add == UnmarshalPlayers(data.Add)
    IN IF Len(add) = 0
       THEN [Remove |-> data.Remove, Add |-> <<>>]
       ELSE [Remove |-> data.Remove,
             Add |-> [i \in 1..Len(add) |->
                        [Address |-> FromText(add[i].Address),
                         PublicKey |-> PublicKeyOf(add[i].PublicKey)]]]

\* factory.FromText(text) on any text.
FromTextAct(text) ==
    /\ pc = "idle"
    /\ pc' = "returned"
    /\ op' = <<"FromText">>
    /\ arg' = text
    /\ ret' = <<FromText(text)>>
    /\ UNCHANGED <<ca, out, heap, calls, other, it, gets, printVars, rpcVars, nonceVars>>

\* factory.FromText(a.MarshalText()) for the address a.
TextRoundTripAct(a) ==
    /\ pc = "idle"
    /\ pc' = "returned"
    /\ op' = <<"TextRoundTrip">>
    /\ arg' = a
    /\ ret' = <<FromText(MarshalText(a, FALSE).data)>>
    /\ UNCHANGED <<ca, out, heap, calls, other, it, gets, printVars, rpcVars, nonceVars>>

\* The roster is encoded by rosterFormat and the data decoded again.
RosterRoundTripAct ==
    /\ pc = "idle"
    /\ pc' = "returned"
    /\ op' = <<"rosterFormat">>
    /\ arg' = RosterEncode(ca)
    /\ ret' = IF RosterEncode(ca).err = Nil
              THEN RosterDecode(RosterEncode(ca).data)
              ELSE [addrs |-> <<>>, signers |-> <<>>]
    /\ UNCHANGED <<ca, out, heap, calls, other, it, gets, printVars, rpcVars, nonceVars>>

\* A change set is encoded by changeSetFormat and the data decoded again.
ChangeSetRoundTripAct(cs) ==
    /\ pc = "idle"
    /\ pc' = "returned"
    /\ op' = <<"changeSetFormat">>
    /\ arg' = cs
    /\ ret' = ChangeSetDecode(ChangeSetEncode(cs).data)
    /\ UNCHANGED <<ca, out, heap, calls, other, it, gets, printVars, rpcVars, nonceVars>>

NextCodec ==
    \/ \E text \in SeqsUpTo(TextBytes, MaxText) : FromTextAct(text)
    \/ \E a \in Addresses : TextRoundTripAct(a)
    \/ RosterRoundTripAct
    \/ \E cs \in ChangeSets(Len(heap[ca.addrs])) : ChangeSetRoundTripAct(cs)
    \/ Discard

SpecCodec == Init /\ [][NextCodec]_vars

\* ------------------------------------------------------------------ RPC.Call
\* The Call invocations made on the one RPC handle, in their order.
CallIds == {1, 2}

\* ctx.Err() of a context that is done.
CtxErrs == {"context canceled", "context deadline exceeded"}

\* The sum of f[k] over the calls made.
RECURSIVE SumOver(_, _)
SumOver(f, k) == IF k = 0 THEN 0 ELSE f[k] + SumOver(f, k - 1)

\* The targets of all calls made that are reachable, and those that are not.
Reachable == SumOver([k \in 1..Len(ctx) |-> ctx[k].reachable], Len(ctx))
Unreachable ==
    SumOver([k \in 1..Len(ctx) |-> Len(heap[ca.addrs]) - ctx[k].reachable], Len(ctx))

\* The per-target errors on Errs (the other entries are context errors).
TargetErrors == SelectSeq(rpc.Errs.buf, LAMBDA e : e = "unreachable")

\* rpc.Call(ctx, m, p) with the roster as p, of whose members `reachable`
\* will answer: the goroutine is started and the two channels of the handle
\* are returned.  The players are not looked at.
CallAct(reachable) ==
    /\ pc = "idle"
    /\ Len(ctx) + 1 \in CallIds
    /\ ctx' = Append(ctx, [err |-> Nil, reachable |-> reachable])
    /\ gor' = Append(gor, "wait")
    /\ UNCHANGED <<rosterVars, rpc, printVars, nonceVars>>

\* The context of call k is canceled or runs out; on a context that is
\* done this changes nothing.
EndContextAct(k, e) ==
    /\ pc = "idle"
    /\ k <= Len(ctx)
    /\ ctx[k].err = Nil
    /\ ctx' = [ctx EXCEPT ![k].err = e]
    /\ UNCHANGED <<rosterVars, rpc, gor, printVars, nonceVars>>

\* The goroutine of call k: <-ctx.Done() returns once the context is done.
GoDoneAct(k) ==
    /\ pc = "idle"
    /\ k <= Len(gor)
    /\ gor[k] = "wait"
    /\ ctx[k].err # Nil
    /\ gor' = [gor EXCEPT ![k] = "woken"]
    /\ UNCHANGED <<rosterVars, rpc, ctx, printVars, nonceVars>>

\* err := ctx.Err(); if err != nil { rpc.Errs <- err }
GoSendErrAct(k) ==
    /\ pc = "idle"
    /\ k <= Len(gor)
    /\ gor[k] = "woken"
    /\ rpc' = [rpc EXCEPT !.Errs.buf = Append(@, ctx[k].err)]
    /\ gor' = [gor EXCEPT ![k] = "sent"]
    /\ UNCHANGED <<rosterVars, ctx, printVars, nonceVars>>

\* close(rpc.Msgs): closing a closed channel panics.
GoCloseAct(k) ==
    /\ pc = "idle"
    /\ k <= Len(gor)
    /\ gor[k] = "sent"
    /\ IF rpc.Msgs.closed
       THEN /\ gor' = [gor EXCEPT ![k] = "panic"]
            /\ pc' = "panicked"
            /\ UNCHANGED rpc
       ELSE /\ gor' = [gor EXCEPT ![k] = "done"]
            /\ rpc' = [rpc EXCEPT !.Msgs.closed = TRUE]
            /\ UNCHANGED pc
    /\ UNCHANGED <<ca, out, heap, calls, op, arg, ret, other, it, gets, ctx, printVars, nonceVars>>

\* rpc.Msgs <- reply: the holder of the handle puts the reply of a reachable
\* target on Msgs; a send on a closed channel panics.
ReplyAct ==
    /\ pc = "idle"
    /\ Len(rpc.Msgs.buf) < Reachable
    /\ IF rpc.Msgs.closed
       THEN pc' = "panicked" /\ UNCHANGED rpc
       ELSE rpc' = [rpc EXCEPT !.Msgs.buf = Append(@, "reply")] /\ UNCHANGED pc
    /\ UNCHANGED <<ca, out, heap, calls, op, arg, ret, other, it, gets, ctx, gor, printVars, nonceVars>>

\* rpc.Errs <- err: the error of a target that cannot be reached.
TargetErrorAct ==
    /\ pc = "idle"
    /\ Len(TargetErrors) < Unreachable
    /\ rpc' = [rpc EXCEPT !.Errs.buf = Append(@, "unreachable")]
    /\ UNCHANGED <<rosterVars, ctx, gor, printVars, nonceVars>>

\* The roster the calls are made to: NewAuthority(n, fake.NewSigner).
InitCall ==
    /\ \E n \in 1..MaxKeep :
          heap = <<NewAuthorityWithBase(0, n, [i \in 1..n |-> "pkA"]).addrs,
                   NewAuthorityWithBase(0, n, [i \in 1..n |-> "pkA"]).signers>>
    /\ ca = [addrs |-> 1, signers |-> 2, Call |-> 0]
    /\ Untouched

\* The steps of the goroutine of call k.
GoAct(k) == GoDoneAct(k) \/ GoSendErrAct(k) \/ GoCloseAct(k)

NextCall ==
    \/ \E m \in 0..Len(heap[ca.addrs]) : CallAct(m)
    \/ \E k \in CallIds, e \in CtxErrs : EndContextAct(k, e)
    \/ \E k \in CallIds : GoDoneAct(k)
    \/ \E k \in CallIds : GoSendErrAct(k)
    \/ \E k \in CallIds : GoCloseAct(k)
    \/ ReplyAct
    \/ TargetErrorAct

\* Every goroutine that can take a step takes it, and the replies and
\* errors of the targets arrive.
SpecCall ==
    /\ InitCall
    /\ [][NextCall]_vars
    /\ \A k \in CallIds : WF_vars(GoAct(k))
    /\ WF_vars(ReplyAct)
    /\ WF_vars(TargetErrorAct)

\* ------------------------------------------------------------ client.GetNonce
\* The most GetNonce calls made on the client.
MaxNonces == 3

\* The largest uint64, 2^64 - 1.
MaxUint64 == <<Limb - 1, Limb - 1, Limb - 1, Limb - 1>>

\* n + 1 in uint64: the carry runs from the last limb to the first, and the
\* carry out of the first is dropped.
Inc(n) ==
    IF n[4] + 1 < Limb THEN <<n[1], n[2], n[3], n[4] + 1>>
    ELSE IF n[3] + 1 < Limb THEN <<n[1], n[2], n[3] + 1, 0>>
    ELSE IF n[2] + 1 < Limb THEN <<n[1], n[2] + 1, 0, 0>>
    ELSE <<(n[1] + 1) % Limb, 0, 0, 0>>

\* a < b as uint64.
Less(a, b) ==
    \E i \in 1..4 : a[i] < b[i] /\ \A j \in 1..(i - 1) : a[j] = b[j]

\* The nonce of the client when the calls that are followed begin: the
\* client as it is made, and the client after earlier calls (GetNonce takes
\* the nonce through every uint64).
StartNonces ==
    {NewClientNonce,
     <<0, 0, 0, Limb - 2>>,
     <<0, 0, Limb - 1, Limb - 2>>,
     <<0, Limb - 1, Limb - 1, Limb - 1>>,
     <<Limb - 1, Limb - 1, Limb - 1, Limb - 3>>,
     <<Limb - 1, Limb - 1, Limb - 1, Limb - 2>>,
     MaxUint64}

\* The callers that are in GetNonce.
InCall == {c \in Callers : callers[c].pc # "idle"}

\* Caller c enters GetNonce.  res := c.nonce
GetNonceRes(c) ==
    /\ callers[c].pc = "idle"
    /\ Len(nonces) + Cardinality(InCall) < MaxNonces
    /\ callers' = [callers EXCEPT ![c].pc = "res", ![c].res = nonce]
    /\ UNCHANGED <<nonce, nonces, start, rosterVars, printVars, rpcVars>>

\* c.nonce++, the read of the field.
GetNonceLoad(c) ==
    /\ callers[c].pc = "res"
    /\ callers' = [callers EXCEPT ![c].pc = "load", ![c].reg = nonce]
    /\ UNCHANGED <<nonce, nonces, start, rosterVars, printVars, rpcVars>>

\* c.nonce++, the write of the field.
GetNonceStore(c) ==
    /\ callers[c].pc = "load"
    /\ nonce' = Inc(callers[c].reg)
    /\ callers' = [callers EXCEPT ![c].pc = "store"]
    /\ UNCHANGED <<nonces, start, rosterVars, printVars, rpcVars>>

\* return res, nil
GetNonceReturn(c) ==
    /\ callers[c].pc = "store"
    /\ nonces' = Append(nonces, callers[c].res)
    /\ callers' = [callers EXCEPT ![c].pc = "idle"]
    /\ UNCHANGED <<nonce, start, rosterVars, printVars, rpcVars>>

InitNonce ==
    /\ heap = <<<<>>, <<>>>>
    /\ ca = [addrs |-> 1, signers |-> 2, Call |-> 0]
    /\ \E n \in StartNonces : ClientAt(n)
    /\ Unused

\* The calls are made one after the other: a call begins when no caller
\* is in GetNonce.
NextNonce ==
    \/ \E c \in Callers : InCall = {} /\ GetNonceRes(c)
    \/ \E c \in Callers : GetNonceLoad(c)
    \/ \E c \in Callers : GetNonceStore(c)
    \/ \E c \in Callers : GetNonceReturn(c)

SpecNonce == InitNonce /\ [][NextNonce]_vars

\* The callers are goroutines that share the client: GetNonce takes no lock
\* and uses no atomic operation, so a caller enters while another is in
\* GetNonce and their reads and writes of c.nonce interleave.  Each read
\* and each write of the field is taken whole.
NextRace ==
    \/ \E c \in Callers : GetNonceRes(c)
    \/ \E c \in Callers : GetNonceLoad(c)
    \/ \E c \in Callers : GetNonceStore(c)
    \/ \E c \in Callers : GetNonceReturn(c)

SpecRace == InitNonce /\ [][NextRace]_vars

\* ------------------------------------------------------------------ claims
\* What the specification says Apply returns: the members of A whose
\* positions are not in Remove, in their order, then the added players.
Kept(s, remove) ==
    LET keep == {i \in 1..Len(s) : (i - 1) \notin Range(remove)}
        idx == SortedSeq(keep)
    IN [j \in 1..Len(idx) |-> s[idx[j]]]

ClaimedApply(A, cs) ==
    [addrs |-> Kept(A.addrs, cs.Remove) \o [i \in 1..Len(cs.Add) |-> cs.Add[i].Address],
     signers |-> Kept(A.signers, cs.Remove) \o [i \in 1..Len(cs.Add) |-> cs.Add[i].PublicKey]]

\* C2: Apply with an empty change set (no Remove index, no Add player)
\* returns a roster equal to the receiver: same length, same addresses and
\* same public keys at the same positions.
C2_ApplyEmptyChangeSet ==
    (op[1] = "Apply" /\ arg = EmptyChangeSet) =>
        /\ op = <<"Apply">>
        /\ Content(out) = Content(ca)

\* An empty change set was applied to a roster of several members whose
\* keys are not all the same.
C2_Witness ==
    /\ op = <<"Apply">>
    /\ arg = EmptyChangeSet
    /\ Len(heap[ca.addrs]) >= 2
    /\ Cardinality(Range(heap[ca.signers])) >= 2

\* C3: Apply returns exactly the members of the receiver whose positions are
\* not listed in Remove, in their original order, followed by the players of
\* Add: an index denotes a position of the receiver whatever the order of
\* the list, an index out of range removes nothing, and no index removes a
\* player Add contributes.
C3_ApplyRemovesSourcePositions ==
    op[1] = "Apply" =>
        /\ op = <<"Apply">>
        /\ Content(out) = ClaimedApply(Content(ca), arg)

\* C5: in every roster reached from a constructed one (pairwise distinct
\* addresses) by Apply and Take, each address appears at most once.
C5_AddressesUnique ==
    /\ Distinct(heap[ca.addrs])
    /\ out # NoRoster => Distinct(heap[out.addrs])

\* The receiver and the argument of the last Diff.
DiffA == Content(ca)
DiffB == other[1]

\* s is a prefix of t.
IsPrefix(s, t) == Len(s) <= Len(t) /\ SubSeq(t, 1, Len(s)) = s

\* t is s with some members removed (the addresses of s are distinct).
IsSubseq(t, s) ==
    /\ Range(t) \subseteq Range(s)
    /\ Distinct(t)
    /\ \A j, l \in 1..Len(t) :
          j < l => (CHOOSE x \in 1..Len(s) : s[x] = t[j]) < (CHOOSE x \in 1..Len(s) : s[x] = t[l])

\* B is A with members removed and new members (addresses A does not hold)
\* added at the end.
Evolved(A, B) ==
    \E p \in 0..Len(B.addrs) :
        /\ IsSubseq(SubSeq(B.addrs, 1, p), A.addrs)
        /\ \A j \in (p + 1)..Len(B.addrs) : B.addrs[j] \notin Range(A.addrs)

\* The players of B from Go position p on.
PlayersFrom(B, p) ==
    [j \in 1..(Len(B.addrs) - p) |->
        [Address |-> B.addrs[p + j], PublicKey |-> B.signers[p + j]]]

\* C1: when B is A with members removed and/or new members added at the
\* end, A.Apply(A.Diff(B)) has the length of B and the address of B at every
\* position.
C1_DiffApplyRoundTrip ==
    (op[1] = "Apply" /\ other # <<>> /\ Evolved(DiffA, DiffB)) =>
        /\ op = <<"Apply">>
        /\ heap[out.addrs] = DiffB.addrs

\* The change sets that could turn A into B when the removals are made in A
\* and the additions appended: Add is then a tail of B.
Alternatives(A, B) ==
    {[Remove |-> SortedSeq(R), Add |-> PlayersFrom(B, p)] :
        <<R, p>> \in (SUBSET (0..(Len(A.addrs) - 1))) \X (0..Len(B.addrs))}

Size(cs) == Len(cs.Remove) + Len(cs.Add)

\* C6: Diff(A, B) turns A into a roster with the addresses of B, position by
\* position (removals made in A, additions appended), and no change set with
\* fewer Remove indices plus Add players does.
C6_DiffMinimal ==
    op = <<"Diff">> =>
        /\ ClaimedApply(DiffA, ret).addrs = DiffB.addrs
        /\ \A c \in Alternatives(DiffA, DiffB) :
              ClaimedApply(DiffA, c).addrs = DiffB.addrs => Size(ret) <= Size(c)

\* A diff that both removes and adds although a smaller-looking change set
\* (remove one member only) would not do: a member of A was replaced.
C6_Witness ==
    /\ op = <<"Diff">>
    /\ Len(DiffA.addrs) = 3
    /\ Len(DiffB.addrs) = 3
    /\ Len(ret.Remove) = 2
    /\ Len(ret.Add) = 2

\* C7: when B is A followed by k new players, Remove is empty and Add is
\* those k players in the order of B; when B is A without its last k
\* members, Add is empty and Remove is the k trailing positions of A.
C7_DiffOfTail ==
    op = <<"Diff">> =>
        /\ (/\ IsPrefix(DiffA.addrs, DiffB.addrs)
            /\ \A j \in (Len(DiffA.addrs) + 1)..Len(DiffB.addrs) :
                  DiffB.addrs[j] \notin Range(DiffA.addrs))
           => ret = [Remove |-> <<>>, Add |-> PlayersFrom(DiffB, Len(DiffA.addrs))]
        /\ IsPrefix(DiffB.addrs, DiffA.addrs)
           => /\ ret.Add = <<>>
              /\ Len(ret.Remove) = Len(DiffA.addrs) - Len(DiffB.addrs)
              /\ Range(ret.Remove) = Len(DiffB.addrs)..(Len(DiffA.addrs) - 1)

\* The diff of a roster of three against the same roster with one new
\* player at the end.
C7_Witness ==
    /\ op = <<"Diff">>
    /\ Len(DiffA.addrs) = 3
    /\ Len(DiffB.addrs) = 4
    /\ IsPrefix(DiffA.addrs, DiffB.addrs)
    /\ ret.Remove = <<>>
    /\ Len(ret.Add) = 1

\* C8: when A and B hold the same addresses in the same order, whatever
\* their public keys, Diff(A, B) is the empty change set.
C8_DiffIgnoresKeys ==
    (op = <<"Diff">> /\ DiffB.addrs = DiffA.addrs) => ret = EmptyChangeSet

\* Two rosters of several members with the same addresses and a different
\* key at some position were diffed.
C8_Witness ==
    /\ op = <<"Diff">>
    /\ DiffB.addrs = DiffA.addrs
    /\ Len(DiffA.addrs) >= 2
    /\ \E i \in 1..Len(DiffA.addrs) : DiffB.signers[i] # DiffA.signers[i]

\* The roster the iterator in use walks.
Walked == heap[it.arr]

\* C9: a new address (or public key) iterator of a roster of n members
\* yields the n elements in roster order: HasNext is true before each of the
\* first n GetNext calls, call i returns the element at Go position i - 1,
\* and after call n HasNext is false and every further GetNext returns nil.
C9_IteratorYieldsRoster ==
    it.impl \in {"fake.AddressIterator", "fake.PublicKeyIterator"} =>
        /\ HasNext(it) <=> gets < Len(Walked)
        /\ op = <<"HasNext">> => ret = <<gets < Len(Walked)>>
        /\ op = <<"GetNext">> =>
              ret = IF gets <= Len(Walked) THEN <<Walked[gets]>> ELSE <<>>

\* The last element of a roster of MaxLen members was just returned, and
\* the keys walked are not all the same.
C9_Witness ==
    /\ it.impl = "fake.PublicKeyIterator"
    /\ op = <<"GetNext">>
    /\ gets = MaxLen
    /\ Len(Walked) = MaxLen
    /\ ret = <<Walked[MaxLen]>>
    /\ Cardinality(Range(Walked)) >= 2

\* C10: whatever the state of the iterator, Seek(k) with 0 <= k < n makes
\* HasNext true and the next GetNext return the element at Go position k;
\* Seek(k) with k >= n leaves the iterator exhausted.
C10_Seek ==
    [][/\ op' = <<"Seek">> =>
            RosterHasNext(it)' = (arg' < Len(Walked'))
       /\ (op = <<"Seek">> /\ op' = <<"RosterHasNext">>) =>
            ret' = <<arg < Len(Walked)>>
       /\ (op = <<"Seek">> /\ op' = <<"RosterGetNext">>) =>
            ret' = IF arg < Len(Walked) THEN <<Walked[arg + 1]>> ELSE <<>>]_vars

\* Seek(1) was called on the iterator of a roster of MaxLen members, and
\* the member at Go position 1 is the one GetNext returns next.
C10_Witness ==
    /\ op = <<"Seek">>
    /\ arg = 1
    /\ Len(Walked) = MaxLen
    /\ RosterHasNext(it)
    /\ RosterGetNext(it).value = <<Walked[2]>>

\* The arrays two rosters both point to.
SharedArrays(r, q) == {r.addrs, r.signers} \cap {q.addrs, q.signers}

\* C4 as stated: no call modifies the roster it is called on (the receiver
\* keeps its addresses and keys at their positions), and a returned roster
\* shares no mutable state with the receiver: no slice and no recorder.
C4_NoSharedMutableState ==
    [][/\ Content(ca)' = Content(ca)
       /\ out' # NoRoster =>
            /\ SharedArrays(out', ca') = {}
            /\ out'.Call = 0]_vars

\* C4 as the code has it: no call modifies the addresses and keys of the
\* roster it is called on, a returned roster has slices of its own, so that
\* a write into them does not show in the receiver, and the one thing it
\* shares with the receiver is the Call recorder, when the receiver has one.
C4_ReceiverUnchanged ==
    [][/\ Content(ca)' = Content(ca)
       /\ out' # NoRoster =>
            /\ SharedArrays(out', ca') = {}
            /\ out'.Call = ca'.Call]_vars

\* The caller wrote into a roster Apply returned, of the length of the
\* receiver, and the receiver has a recorder.
C4_Witness ==
    /\ op = <<"poke">>
    /\ out # NoRoster
    /\ Len(heap[out.addrs]) = MaxLen
    /\ Len(heap[ca.addrs]) = MaxLen
    /\ ca.Call = 1
    /\ calls > 0

\* The indices the filters of the last Take resolve to.
Resolved == ApplyFilters(arg)

\* The roster Take returned holds, at every position i, the address and the
\* key the receiver holds at the i-th resolved index.
TakenAtResolved ==
    /\ op = <<"Take">>
    /\ Len(heap[out.addrs]) = Len(Resolved)
    /\ Len(heap[out.signers]) = Len(Resolved)
    /\ \A i \in 1..Len(Resolved) :
          /\ heap[out.addrs][i] = heap[ca.addrs][Resolved[i] + 1]
          /\ heap[out.signers][i] = heap[ca.signers][Resolved[i] + 1]

\* The one filter of the last Take is a range [lo, hi) within the receiver.
RangeWithin ==
    /\ Len(arg) = 1
    /\ arg[1].kind = "range"
    /\ arg[1].hi <= Len(heap[ca.addrs])

\* C11 as stated: Take(filters) returns, whatever the filters, a new roster
\* as long as the list of resolved indices whose i-th player is the
\* receiver's player at the i-th resolved index, address and key paired.
C11_TakeReturnsResolved ==
    op[1] = "Take" => TakenAtResolved

\* C11 as the code has it: when every resolved index is a position of the
\* receiver, Take returns a new roster as long as the list of resolved
\* indices whose i-th player is the receiver's player at the i-th resolved
\* index, address and key paired, and for one range filter [lo, hi) with
\* 0 <= lo <= hi <= n these are the players at positions lo..hi-1 in their
\* order; when a resolved index is not a position of the receiver, Take
\* panics and returns nothing.
C11_TakeWithinReceiver ==
    op[1] = "Take" =>
        IF \A i \in 1..Len(Resolved) : Resolved[i] < Len(heap[ca.addrs])
        THEN /\ TakenAtResolved
             /\ out.addrs \notin {ca.addrs, ca.signers}
             /\ out.signers \notin {ca.addrs, ca.signers}
             /\ RangeWithin =>
                   /\ heap[out.addrs] = SubSeq(heap[ca.addrs], arg[1].lo + 1, arg[1].hi)
                   /\ heap[out.signers] = SubSeq(heap[ca.signers], arg[1].lo + 1, arg[1].hi)
        ELSE op = <<"Take", "panic">> /\ out = NoRoster

\* Take(RangeFilter(1, 3)) on a roster of three members whose last two keys
\* differ returned the members at positions 1 and 2.
C11_Witness ==
    /\ op = <<"Take">>
    /\ arg = <<RangeFilter(1, 3)>>
    /\ Len(heap[ca.addrs]) = 3
    /\ heap[out.addrs] = SubSeq(heap[ca.addrs], 2, 3)
    /\ heap[out.signers] = SubSeq(heap[ca.signers], 2, 3)
    /\ heap[ca.signers][2] # heap[ca.signers][3]
    /\ heap[ca.signers][1] # heap[ca.signers][2]

\* The Go positions at which the receiver holds the address looked up.
PositionsOf(addr) == {i \in 0..(Len(heap[ca.addrs]) - 1) : heap[ca.addrs][i + 1] = addr}

\* C12: GetPublicKey(addr) returns (key, i) where i is a position of the
\* receiver whose address equals addr (the first one) and key is the public
\* key at that position; for an address the receiver does not hold it
\* returns (nil, -1).  It returns in every case.
C12_GetPublicKey ==
    op[1] = "GetPublicKey" =>
        /\ op = <<"GetPublicKey">>
        /\ IF PositionsOf(arg) # {}
           THEN /\ ret[2] \in PositionsOf(arg)
                /\ \A i \in PositionsOf(arg) : ret[2] <= i
                /\ ret[1] = heap[ca.signers][ret[2] + 1]
           ELSE ret = <<Nil, -1>>

\* The address at position 1 of a roster of three was looked up, and the
\* key there is not the key at position 0.
C12_Witness ==
    /\ op = <<"GetPublicKey">>
    /\ Len(heap[ca.addrs]) = 3
    /\ arg = heap[ca.addrs][2]
    /\ ret = <<heap[ca.signers][2], 1>>
    /\ heap[ca.signers][1] # heap[ca.signers][2]

\* The bytes of a list of writes, one after the other.
RECURSIVE Flatten(_)
Flatten(ws) == IF ws = <<>> THEN <<>> ELSE Head(ws) \o Flatten(Tail(ws))

\* What Fingerprint is to write for the roster A: address_0, key_0,
\* address_1, key_1, ... with the address as four little-endian bytes and
\* the key as its one byte.
ExpectedWrites(A) ==
    [j \in 1..(2 * Len(A.addrs)) |->
        IF j % 2 = 1 THEN Uint32Bytes(A.addrs[(j + 1) \div 2]) ELSE <<KeyByte>>]

\* The writer h takes k more writes without failing.
Accepts(h, k) == ~h.err \/ h.delay >= k

\* C13: Fingerprint on a roster whose addresses and keys all encode, with a
\* writer that takes the writes, returns no error and hands the writer, for
\* each player in roster order, the address bytes and then the key bytes,
\* and nothing else; a second run on the unchanged roster writes the same
\* bytes again.
C13_FingerprintWrites ==
    (/\ op = <<"Fingerprint">>
     /\ errs = {}
     /\ Accepts(arg, 2 * Len(heap[ca.addrs]))) =>
        /\ ret = Nil
        /\ w.data = arg.data \o ExpectedWrites(Content(ca))
        /\ Flatten(w.data) = Flatten(arg.data) \o Flatten(ExpectedWrites(Content(ca)))

\* The second of two runs on a roster of two members with different
\* addresses wrote what the first had written.
C13_Witness ==
    /\ op = <<"Fingerprint">>
    /\ ret = Nil
    /\ Len(heap[ca.addrs]) = 2
    /\ arg.data = ExpectedWrites(Content(ca))
    /\ w.data = arg.data \o arg.data
    /\ Len(Flatten(w.data)) = 20

\* What the fields of a roster encode to.
Encoded(A) ==
    [addrs |-> [i \in 1..Len(A.addrs) |-> MarshalText(A.addrs[i], FALSE).data],
     keys |-> [i \in 1..Len(A.signers) |-> MarshalBinary(A.signers[i], FALSE).data]]

\* A and B have the same length and their encoded fields differ in exactly
\* one address or exactly one key.
DiffersInOneField(A, B) ==
    /\ Len(A.addrs) = Len(B.addrs)
    /\ Cardinality({i \in 1..Len(A.addrs) : Encoded(A).addrs[i] # Encoded(B).addrs[i]})
         + Cardinality({i \in 1..Len(A.addrs) : Encoded(A).keys[i] # Encoded(B).keys[i]}) = 1

\* The rosters that differ from A in at most one address, with any keys.
Neighbours(A) ==
    {[addrs |-> a, signers |-> k] :
        <<a, k>> \in
            ({A.addrs} \cup {[A.addrs EXCEPT ![i] = x] :
                                <<i, x>> \in (1..Len(A.addrs)) \X Addresses})
            \X [1..Len(A.addrs) -> PubKeys]}

\* The bytes Fingerprint writes for a roster B none of whose elements fails.
StreamOf(B) == Flatten(FingerprintLoop(ca, B, {}, NewBuffer, 0).w.data)

\* C14: for any two rosters of the same length whose encoded fields differ
\* in exactly one address or exactly one public key, the byte streams
\* Fingerprint writes are different.
C14_FingerprintSensitive ==
    (op = <<"Fingerprint">> /\ ret = Nil /\ arg.data = <<>>) =>
        \A B \in Neighbours(Content(ca)) :
            DiffersInOneField(Content(ca), B) => StreamOf(B) # Flatten(w.data)

\* A roster of MaxLen members whose keys are not all the same was
\* fingerprinted into a new buffer.
C14_Witness ==
    /\ op = <<"Fingerprint">>
    /\ ret = Nil
    /\ arg = NewBuffer
    /\ Len(heap[ca.addrs]) = MaxLen
    /\ Cardinality(Range(heap[ca.signers])) >= 2
    /\ \E B \in Neighbours(Content(ca)) : DiffersInOneField(Content(ca), B)

\* The steps of a Fingerprint of the receiver, numbered from 1: for each
\* player, marshal the address, write it, marshal the key, write it.
StepKind(s) == (s - 1) % 4
StepPlayer(s) == (s - 1) \div 4
WritesUpTo(s) == Cardinality({t \in 1..s : StepKind(t) \in {1, 3}})

\* Step s fails: the element has its err set, or the writer handed over has
\* an err and has used up its delay.
StepFails(s) ==
    CASE StepKind(s) = 0 -> <<ca.addrs, StepPlayer(s)>> \in errs
      [] StepKind(s) = 2 -> <<ca.signers, StepPlayer(s)>> \in errs
      [] OTHER -> arg.err /\ WritesUpTo(s) > arg.delay

FailingSteps == {s \in 1..(4 * Len(heap[ca.addrs])) : StepFails(s)}
FirstFailing == CHOOSE s \in FailingSteps : \A t \in FailingSteps : s <= t

StepError(s) ==
    CASE StepKind(s) = 0 -> "couldn't marshal address"
      [] StepKind(s) = 1 -> "couldn't write address"
      [] StepKind(s) = 2 -> "couldn't marshal public key"
      [] OTHER -> "couldn't write public key"

\* The Write calls the last Fingerprint made.
WritesMade == SubSeq(w.data, Len(arg.data) + 1, Len(w.data))

\* C15: Fingerprint stops at the first failure and returns the error that
\* names the failing step ("couldn't marshal address", "couldn't write
\* address", "couldn't marshal public key", "couldn't write public key");
\* the writer is handed the writes up to the failing step and none after.
C15_FingerprintFirstFailure ==
    op = <<"Fingerprint">> =>
        IF FailingSteps = {}
        THEN ret = Nil /\ WritesMade = ExpectedWrites(Content(ca))
        ELSE /\ ret = StepError(FirstFailing)
             /\ WritesMade = SubSeq(ExpectedWrites(Content(ca)), 1, WritesUpTo(FirstFailing))

\* A writer that fails its second write was handed to Fingerprint on a
\* roster of several members: the address of the first was written and the
\* write of its key failed.
C15_Witness ==
    /\ op = <<"Fingerprint">>
    /\ arg = NewBadHashWithDelay(1)
    /\ Len(heap[ca.addrs]) >= 2
    /\ ret = "couldn't write public key"
    /\ Len(WritesMade) = 2

\* C16: for every address a whose MarshalText succeeds,
\* FromText(a.MarshalText()) is Equal to a.
C16_TextRoundTrip ==
    op = <<"TextRoundTrip">> => Equal(ret[1], arg)

\* C17: the decoding of the encoding of a roster has the length of the
\* roster, an Equal address and the same public key at every position; the
\* decoding of the encoding of a change set has the same Remove indices in
\* the same order and the same Add players in the same order.
C17_JSONRoundTrip ==
    /\ (op = <<"rosterFormat">> /\ arg.err = Nil) =>
          /\ Len(ret.addrs) = Len(heap[ca.addrs])
          /\ Len(ret.signers) = Len(heap[ca.signers])
          /\ \A i \in 1..Len(heap[ca.addrs]) :
                /\ Equal(ret.addrs[i], heap[ca.addrs][i])
                /\ ret.signers[i] = heap[ca.signers][i]
    /\ op = <<"changeSetFormat">> =>
          /\ ret.Remove = arg.Remove
          /\ Len(ret.Add) = Len(arg.Add)
          /\ \A i \in 1..Len(arg.Add) :
                /\ Equal(ret.Add[i].Address, arg.Add[i].Address)
                /\ ret.Add[i].PublicKey = arg.Add[i].PublicKey

\* C18: when no context is ever canceled, every Call to the N members of
\* the roster, M of them reachable, eventually has delivered its N entries
\* (M replies and N - M errors) with the response sequence closed then, and
\* the sequence is not closed before the N entries are delivered.
C18_CallDeliversAndCloses ==
    [](\A k \in 1..Len(ctx) : ctx[k].err = Nil) =>
        /\ [](ctx # <<>> =>
                <>(/\ rpc.Msgs.closed
                   /\ Len(rpc.Msgs.buf) = Reachable
                   /\ Len(rpc.Errs.buf) = Unreachable))
        /\ [](rpc.Msgs.closed =>
                Len(rpc.Msgs.buf) + Len(rpc.Errs.buf) >= Len(heap[ca.addrs]))

\* C19: whatever the interleaving of replies, cancellations and further
\* Calls on the handle, the response sequence is closed once: no goroutine
\* closes it a second time, it does not stay open once the context of a
\* Call has ended, and nothing is delivered on it after it is closed.
C19_ClosedExactlyOnce ==
    /\ [](\A k \in 1..Len(gor) : gor[k] # "panic")
    /\ [][rpc.Msgs.closed => rpc'.Msgs.buf = rpc.Msgs.buf]_vars
    /\ \A k \in CallIds :
          (Len(ctx) >= k /\ ctx[k].err # Nil) ~> rpc.Msgs.closed

\* C20: in a sequence of GetNonce calls on one client the first call returns
\* the nonce the client began with, every later call returns one more than
\* the call before it, and so every nonce returned is greater than all the
\* nonces returned before it.
C20_NoncesIncrease ==
    /\ nonces # <<>> => nonces[1] = start
    /\ \A i \in 1..(Len(nonces) - 1) :
          /\ nonces[i] # MaxUint64
          /\ nonces[i + 1] = Inc(nonces[i])
    /\ \A i \in 1..Len(nonces) : \A j \in (i + 1)..Len(nonces) :
          Less(nonces[i], nonces[j])

\* n + 1 taken k times in uint64.
RECURSIVE IncTimes(_, _)
IncTimes(n, k) == IF k = 0 THEN n ELSE Inc(IncTimes(n, k - 1))

\* C21: when several callers are in GetNonce on the one client at the same
\* time, no two calls return the same nonce, and once k calls have returned
\* and no caller is in GetNonce the stored nonce is k more than it was
\* before the first of them.
C21_AtomicIncrement ==
    /\ \A i \in 1..Len(nonces) : \A j \in (i + 1)..Len(nonces) :
          nonces[i] # nonces[j]
    /\ InCall = {} => nonce = IncTimes(start, Len(nonces))

====
